---- MODULE Spec2Model ----
(***************************************************************************)
(* Model of the command registry (BaseRegistry, registry.ts) and of the    *)
(* server dispatcher (ServerDispatcher, dispatcher.ts).                    *)
(*                                                                         *)
(* Registry state: the `commands` and `groups` maps (path string ->        *)
(* object), the child-path cache `cachedPaths` (key -> list of paths) and  *)
(* the `types` map (name -> argument type).                                *)
(* Each registry action is one whole public call.  `fired` and `logged`    *)
(* hold the signals fired and the messages logged by the last call, `last` *)
(* names the last call.  `held` is what a subscriber of the four signals    *)
(* holds: the commands and groups announced and not yet withdrawn.         *)
(*                                                                         *)
(* Dispatcher state: `calls` holds the remote executeCommand requests, one *)
(* record per request with the position of its handler, and `handled` the  *)
(* calls made to handleError.                                              *)
(***************************************************************************)
EXTENDS Integers, Sequences, FiniteSets, TLC

VARIABLES commands, groups, cachedPaths, types, fired, logged, last, held, calls,
          handled

\* the registry's variables, the dispatcher's variables
rvars == <<commands, groups, cachedPaths, types, fired, logged, last, held>>

dvars == <<calls, handled>>

vars == <<commands, groups, cachedPaths, types, fired, logged, last, held, calls,
          handled>>

(***************************************************************************)
(* Bounds of the model.                                                    *)
(***************************************************************************)
\* live command and group objects
MaxObjs == 2
\* segments of a path handed to the registry
MaxDepth == 2
\* group definitions in one registerGroup call
MaxBatch == 2
\* aliases of one command
MaxAliases == 1
\* remote requests in flight
MaxReqs == 2
\* decorated command methods of one class
MaxProps == 2
\* objects a subscriber holds
MaxHeld == 2

\* lower-case segment names, the names a caller may give a command (one in
\* upper case), and those with one that is not made of [a-zA-Z0-9_]
Names == {"a", "b"}
InputNames == Names \cup {"B"}
AnyNames == InputNames \cup {"-"}
\* byte order of the names (Luau compares strings byte-wise)
Alphabet == <<"-", "B", "a", "b">>

Min(x, y) == IF x < y THEN x ELSE y

(***************************************************************************)
(* Strings                                                                 *)
(***************************************************************************)
lower(s) == IF s = "B" THEN "b" ELSE s

lowerAll(parts) == [k \in 1..Len(parts) |-> lower(parts[k])]

\* part.match("^[a-zA-Z0-9_]+$")
matchesPattern(part) == part \in {"a", "b", "B"}

ordinal(s) == CHOOSE k \in 1..Len(Alphabet) : Alphabet[k] = s

lessStr(s, t) == ordinal(s) < ordinal(t)

(***************************************************************************)
(* RegistryPath                                                            *)
(***************************************************************************)
size(p) == Len(p)

\* parts from..to, both inclusive and counted from 0
slice(p, from, to) == SubSeq(p, from + 1, Min(to, Len(p) - 1) + 1)

parent(p) == SubSeq(p, 1, Len(p) - 1)

tail(p) == p[Len(p)]

append(p, part) == Append(p, part)

RECURSIVE toString(_)
toString(p) ==
    IF Len(p) = 0 THEN ""
    ELSE IF Len(p) = 1 THEN p[1]
    ELSE toString(parent(p)) \o "/" \o tail(p)

equals(p, q) == toString(p) = toString(q)

(***************************************************************************)
(* Map<K, V>                                                               *)
(***************************************************************************)
EmptyMap == [k \in {} |-> 0]

Has(m, k) == k \in DOMAIN m

Put(m, k, v) == [x \in DOMAIN m \cup {k} |-> IF x = k THEN v ELSE m[x]]

Del(m, k) == [x \in DOMAIN m \ {k} |-> m[x]]

Range(f) == {f[x] : x \in DOMAIN f}

(***************************************************************************)
(* Arrays                                                                  *)
(***************************************************************************)
RECURSIVE filterOut(_, _)
\* cache.filter((val) => !val.equals(pathSlice))
filterOut(cache, pathSlice) ==
    IF cache = <<>> THEN <<>>
    ELSE LET rest == filterOut(Tail(cache), pathSlice)
         IN  IF equals(Head(cache), pathSlice) THEN rest ELSE <<Head(cache)>> \o rest

insertByTail(sorted, p) ==
    LET k == Cardinality({j \in 1..Len(sorted) : ~lessStr(tail(p), tail(sorted[j]))})
    IN  SubSeq(sorted, 1, k) \o <<p>> \o SubSeq(sorted, k + 1, Len(sorted))

\* a sort that leaves the list as it is
sortByTailKeepsOrder(cache) == cache

RECURSIVE sortByTail(_)
\* cache.sort((a, b) => a.tail() < b.tail())
sortByTail(cache) ==
    IF cache = <<>> THEN <<>>
    ELSE insertByTail(sortByTail(SubSeq(cache, 1, Len(cache) - 1)), cache[Len(cache)])

(***************************************************************************)
(* Child-path cache                                                        *)
(***************************************************************************)
ROOT_KEY == "__root__"

getRootPaths(cp) == IF Has(cp, ROOT_KEY) THEN cp[ROOT_KEY] ELSE <<>>

getChildPaths(cp, path) ==
    IF Has(cp, lower(toString(path))) THEN cp[lower(toString(path))] ELSE <<>>

RECURSIVE cachePathLoop(_, _, _, _)
cachePathLoop(cp, path, i, key) ==
    IF i > size(path) - 1 THEN cp
    ELSE LET pathSlice == slice(path, 0, i)
             cache     == IF Has(cp, key) THEN cp[key] ELSE <<>>
             newCache  == IF \E k \in 1..Len(cache) : equals(cache[k], pathSlice)
                          THEN cache
                          ELSE sortByTail(Append(cache, pathSlice))
         IN  cachePathLoop(Put(cp, key, newCache), path, i + 1, toString(pathSlice))

\* a cachePath whose range ends one short: the path itself is never listed
cachePathOneShort(cp, path) == cachePathLoop(cp, parent(path), 0, ROOT_KEY)

cachePath(cp, path) == cachePathLoop(cp, path, 0, ROOT_KEY)

RECURSIVE uncachePathLoop(_, _, _, _)
uncachePathLoop(cp, path, i, key) ==
    IF i > size(path) - 1 THEN cp
    ELSE IF ~Has(cp, key) THEN cp
    ELSE LET pathSlice == slice(path, 0, i)
             newCache  == sortByTail(filterOut(cp[key], pathSlice))
             cp2       == IF newCache = <<>> THEN Del(cp, key) ELSE Put(cp, key, newCache)
         IN  uncachePathLoop(cp2, path, i + 1, toString(pathSlice))

\* an uncachePath that leaves the key of a list it has emptied in the map
uncachePathKeepsEmpty(cp, path) ==
    LET after == uncachePathLoop(cp, path, 0, ROOT_KEY)
    IN  [key \in DOMAIN cp |-> IF Has(after, key) THEN after[key] ELSE <<>>]

uncachePath(cp, path) == uncachePathLoop(cp, path, 0, ROOT_KEY)

(***************************************************************************)
(* Objects: commands and groups.  An object is held by value: a command is *)
(* its list of paths, a group is its path and its lists of children (child *)
(* groups by path, child commands by value).                               *)
(***************************************************************************)
\* the state a call works on
Begin ==
    [commands |-> commands, groups |-> groups, cachedPaths |-> cachedPaths,
     fired |-> <<>>, logged |-> {}, thrown |-> FALSE, pending |-> <<>>]

\* new CommandGroup(config, path, options)
CommandGroup(path) == [paths |-> <<path>>, groups |-> <<>>, commands |-> <<>>]

\* new ExecutableCommand(config, registry, path, options, callback, guards):
\* the command's paths are its own path and one sibling path per alias
ExecutableCommand(commandPath, aliases, guards) ==
    [paths |-> <<commandPath>> \o
               [k \in 1..Len(aliases) |-> append(parent(commandPath), lower(aliases[k]))],
     guards |-> guards]

getPath(obj) == obj.paths[1]

getPaths(obj) == obj.paths

removeItem(items, item) == SelectSeq(items, LAMBDA x : x # item)

\* the methods of the group stored under key g
hasGroup(st, g, name) ==
    \E k \in 1..Len(st.groups[g].groups) : tail(st.groups[g].groups[k]) = lower(name)

addGroup(st, g, childPath) == [st EXCEPT !.groups[g].groups = Append(@, childPath)]

removeGroup(st, g, childPath) == [st EXCEPT !.groups[g].groups = removeItem(@, childPath)]

groupAddCommand(st, g, cmd) == [st EXCEPT !.groups[g].commands = Append(@, cmd)]

removeCommand(st, g, cmd) == [st EXCEPT !.groups[g].commands = removeItem(@, cmd)]

(***************************************************************************)
(* Logger and signals                                                      *)
(***************************************************************************)
\* logger.error / logger.warn: the message is reported, the call goes on
logMessage(st, msg) == [st EXCEPT !.logged = @ \cup {msg}]

\* logger.assert(false, ...): the call is aborted
assertFailed(st, msg) == [st EXCEPT !.logged = @ \cup {msg}, !.thrown = TRUE]

Fire(st, signal, obj) ==
    [st EXCEPT !.fired = Append(@, [signal |-> signal, paths |-> getPaths(obj)])]

(***************************************************************************)
(* BaseRegistry                                                            *)
(***************************************************************************)
\* config.guards, copied into globalGuards by the constructor
globalGuards == <<"isPlayer">>

\* guards: CommandGuard[] = []
NoGuards == <<>>

\* undefined
None == ""

\* the key under which the command / group of a path is stored, or None
getCommand(st, path) == IF Has(st.commands, toString(path)) THEN toString(path) ELSE None

getGroup(st, path) == IF Has(st.groups, toString(path)) THEN toString(path) ELSE None

validatePath(st, path, isCommand) ==
    LET pathString        == toString(path)
        commandRegistered == Has(st.commands, pathString)
        groupRegistered   == Has(st.groups, pathString)
    IN  IF \E k \in 1..Len(path) : ~matchesPattern(path[k])
        THEN logMessage(st, "invalid path")
        ELSE IF commandRegistered /\ isCommand
        THEN logMessage(st, "duplicate command")
        ELSE IF commandRegistered
        THEN logMessage(st, "command exists with the name of this group")
        ELSE IF groupRegistered /\ isCommand
        THEN logMessage(st, "group exists with the name of this command")
        ELSE IF groupRegistered
        THEN logMessage(st, "duplicate group")
        ELSE st

\* the path of a group definition
groupPath(def) == Append(lowerAll(def.parent), lower(def.name))

\* lines 237-243: link into the parent, insert, cache, fire
insertGroup(st, def) ==
    LET path == groupPath(def)
        st1  == IF size(path) > 1 THEN addGroup(st, getGroup(st, parent(path)), path)
                ELSE st
        st2  == [st1 EXCEPT !.groups = Put(@, toString(path), CommandGroup(path)),
                            !.cachedPaths = cachePath(@, path)]
    IN  Fire(st2, "groupRegistered", CommandGroup(path))

RECURSIVE registerGroupLoop(_, _, _)
\* the loop over the sorted commandGroups, lines 215-244; `pending` is what the
\* loop has not come to
registerGroupLoop(st, commandGroups, k) ==
    IF k > Len(commandGroups) THEN [st EXCEPT !.pending = <<>>]
    ELSE LET def  == commandGroups[k]
             path == groupPath(def)
             st1  == validatePath(st, path, FALSE)
         IN  IF size(path) > 1
             THEN LET parentGroup == getGroup(st1, parent(path))
                  IN  IF parentGroup = None
                      THEN logMessage(
                               [st1 EXCEPT !.pending =
                                   [n \in 1..(Len(commandGroups) - k) |->
                                       groupPath(commandGroups[k + n])]],
                               "parent group is not registered")
                      ELSE IF hasGroup(st1, parentGroup, def.name)
                      THEN registerGroupLoop(
                               logMessage(st1, "skipping duplicate child group"),
                               commandGroups, k + 1)
                      ELSE registerGroupLoop(insertGroup(st1, def), commandGroups, k + 1)
             ELSE registerGroupLoop(insertGroup(st1, def), commandGroups, k + 1)

registerGroup(st, commandGroups) == registerGroupLoop(st, commandGroups, 1)

RECURSIVE addCommandLoop(_, _, _)
addCommandLoop(st, command, k) ==
    IF k > Len(getPaths(command)) THEN st
    ELSE LET path == getPaths(command)[k]
             st1  == validatePath(st, path, TRUE)
         IN  addCommandLoop(
                 [st1 EXCEPT !.commands = Put(@, toString(path), command),
                             !.cachedPaths = cachePath(@, path)],
                 command, k + 1)

addCommand(st, command, group) ==
    LET st1 == addCommandLoop(st, command, 1)
        st2 == IF group # None THEN groupAddCommand(st1, group, command) ELSE st1
    IN  Fire(st2, "commandRegistered", command)

\* whether createCommand's assertion holds
groupResolves(st, group, hasGroupArg) == hasGroupArg => getGroup(st, group) # None

createCommand(name, aliases, group, hasGroupArg, guards) ==
    ExecutableCommand(IF hasGroupArg THEN append(group, lower(name)) ELSE <<lower(name)>>,
                      aliases, guards)

registerCommand(st, name, aliases, group, hasGroupArg, guards) ==
    IF ~groupResolves(st, group, hasGroupArg)
    THEN assertFailed(st, "group is not registered")
    ELSE addCommand(st, createCommand(name, aliases, group, hasGroupArg, guards), None)

\* undefined, where an argument type is expected
NoType == [name |-> "", expensive |-> FALSE, transform |-> ""]

\* a registerType that leaves a name it finds registered as it is
registerTypeKeepsFirst(tm, descriptors) ==
    LET first(name) == CHOOSE k \in 1..Len(descriptors) :
                           /\ descriptors[k].name = name
                           /\ \A j \in 1..(k - 1) : descriptors[j].name # name
    IN  [name \in DOMAIN tm \cup {descriptors[k].name : k \in 1..Len(descriptors)} |->
            IF Has(tm, name) THEN tm[name] ELSE descriptors[first(name)]]

RECURSIVE registerType(_, _)
\* for (const options of types) this.types.set(options.name, options)
registerType(tm, descriptors) ==
    IF descriptors = <<>> THEN tm
    ELSE registerType(Put(tm, Head(descriptors).name, Head(descriptors)), Tail(descriptors))

getType(tm, name) == IF Has(tm, name) THEN tm[name] ELSE NoType

RECURSIVE registerProperties(_, _, _)
\* the loop over the decorated properties of a class, lines 519-569
registerProperties(st, cls, k) ==
    IF k > Len(cls.properties) \/ st.thrown THEN st
    ELSE LET property    == cls.properties[k]
             groupParts  == lowerAll(cls.classGroups) \o lowerAll(property.group)
             hasGroupArg == groupParts # <<>>
             guards      == globalGuards \o cls.classGuards \o property.guards
         IN  registerProperties(
                 IF ~groupResolves(st, groupParts, hasGroupArg)
                 THEN assertFailed(st, "group is not registered")
                 ELSE addCommand(
                          st,
                          createCommand(property.name, <<>>, groupParts, hasGroupArg, guards),
                          None),
                 cls, k + 1)

\* registerCommandClass, with registerOptions.groups as registerGroup sorted them
registerCommandClass(st, cls, commandGroups) ==
    registerProperties(registerGroup(st, commandGroups), cls, 1)

RECURSIVE unregisterCommandPaths(_, _, _)
unregisterCommandPaths(st, paths, k) ==
    IF k > Len(paths) THEN st
    ELSE unregisterCommandPaths(
             [st EXCEPT !.commands = Del(@, toString(paths[k])),
                        !.cachedPaths = uncachePath(@, paths[k])],
             paths, k + 1)

\* an unregisterCommand that passes over a path it does not find
unregisterCommandLenient(st, path) ==
    IF getCommand(st, path) = None THEN st
    ELSE LET command == st.commands[getCommand(st, path)]
             group   == getGroup(st, parent(path))
             st1     == IF group # None THEN removeCommand(st, group, command) ELSE st
             st2     == unregisterCommandPaths(st1, getPaths(command), 1)
         IN  Fire(st2, "commandUnregistered", command)

unregisterCommand(st, path) ==
    IF getCommand(st, path) = None THEN assertFailed(st, "command is not registered")
    ELSE LET command == st.commands[getCommand(st, path)]
             group   == getGroup(st, parent(path))
             st1     == IF group # None THEN removeCommand(st, group, command) ELSE st
             st2     == unregisterCommandPaths(st1, getPaths(command), 1)
         IN  Fire(st2, "commandUnregistered", command)

RECURSIVE unregisterChildCommands(_, _, _)
unregisterChildCommands(st, cmds, k) ==
    IF k > Len(cmds) \/ st.thrown THEN st
    ELSE unregisterChildCommands(unregisterCommand(st, getPath(cmds[k])), cmds, k + 1)

RECURSIVE unregisterGroup(_, _)
RECURSIVE unregisterChildGroups(_, _, _)
unregisterChildGroups(st, grps, k) ==
    IF k > Len(grps) \/ st.thrown THEN st
    ELSE unregisterChildGroups(unregisterGroup(st, grps[k]), grps, k + 1)

unregisterGroup(st, path) ==
    IF getGroup(st, path) = None THEN assertFailed(st, "group is not registered")
    ELSE LET g           == getGroup(st, path)
             group       == st.groups[g]
             parentGroup == getGroup(st, parent(path))
             st1 == IF parentGroup # None THEN removeGroup(st, parentGroup, getPath(group))
                    ELSE st
             st2 == unregisterChildCommands(st1, group.commands, 1)
             st3 == unregisterChildGroups(st2, group.groups, 1)
         IN  IF st3.thrown THEN st3
             ELSE Fire([st3 EXCEPT !.groups = Del(@, toString(path)),
                                   !.cachedPaths = uncachePath(@, path)],
                       "groupUnregistered", group)

\* the command and group objects the registry holds
liveObjects(st) == Cardinality(Range(st.commands)) + Cardinality(DOMAIN st.groups)

\* no guards given to the call
NoGiven == [classGuards |-> <<>>, guards |-> <<>>]

\* nothing announced
NoneHeld == [commands |-> {}, groups |-> {}]

RECURSIVE deliver(_, _)
\* a subscriber's handlers run for the signals in the order they were fired; it
\* knows an object by its paths
deliver(h, signals) ==
    IF signals = <<>> THEN h
    ELSE LET s == Head(signals)
             h1 == IF s.signal = "commandRegistered"
                   THEN [h EXCEPT !.commands = @ \cup {s.paths}]
                   ELSE IF s.signal = "commandUnregistered"
                   THEN [h EXCEPT !.commands = @ \ {s.paths}]
                   ELSE IF s.signal = "groupRegistered"
                   THEN [h EXCEPT !.groups = @ \cup {s.paths}]
                   ELSE [h EXCEPT !.groups = @ \ {s.paths}]
         IN  deliver(h1, Tail(signals))

\* the call's result becomes the registry's state; `given` holds the guards the
\* call was given
Record(st, op, args, given) ==
    /\ liveObjects(st) <= MaxObjs
    /\ commands' = st.commands
    /\ groups' = st.groups
    /\ cachedPaths' = st.cachedPaths
    /\ fired' = st.fired
    /\ logged' = st.logged
    /\ last' = [op |-> op, args |-> IF st.thrown THEN <<>> ELSE args,
                result |-> IF st.thrown THEN "error" ELSE "ok", pending |-> st.pending,
                given |-> IF st.thrown THEN NoGiven ELSE given]
    /\ UNCHANGED <<types, dvars>>

\* a call with no subscriber connected
CommitGiven(st, op, args, given) == Record(st, op, args, given) /\ UNCHANGED held

Commit(st, op, args) == CommitGiven(st, op, args, NoGiven)

\* a call with a subscriber connected to the four signals
Observe(st, op, args) ==
    /\ Record(st, op, args, NoGiven)
    /\ held' = deliver(held, st.fired)
    /\ Cardinality(held'.commands) + Cardinality(held'.groups) <= MaxHeld

(***************************************************************************)
(* Inputs                                                                  *)
(***************************************************************************)
SeqsUpTo(S, n) == UNION {[1..k -> S] : k \in 0..n}

\* paths a caller may pass
InputPaths == SeqsUpTo(Names, MaxDepth) \ {<<>>}

\* GroupOptions: a name and an optional parent
GroupDefs == [name : Names, parent : SeqsUpTo(Names, MaxDepth - 1)]

Batches == SeqsUpTo(GroupDefs, MaxBatch) \ {<<>>}

\* the guards a caller may give a command, and a class
GuardLists == {NoGuards, <<"isOwner">>}

ClassGuardLists == {NoGuards, <<"isAdmin">>}

\* a decorated method: @Command options, @Group and @Guard of the property
Properties == [name : Names, group : SeqsUpTo(Names, MaxDepth - 1), guards : GuardLists]

\* a decorated class: @Register groups, @Group and @Guard of the class, and
\* its decorated methods
Classes ==
    {cls \in [groups : SeqsUpTo([name : Names, parent : {<<>>}], 1),
              classGroups : SeqsUpTo(Names, MaxDepth - 1),
              classGuards : ClassGuardLists,
              properties : SeqsUpTo(Properties, MaxProps) \ {<<>>}] :
        \A k \in 1..Len(cls.properties) :
            Len(cls.classGroups) + Len(cls.properties[k].group) < MaxDepth}

\* argument types: a name, the expensive flag and a transform
TypeNames == {"number", "string"}

Transforms == {"tonumber", "tostring"}

ArgumentTypes == [name : TypeNames, expensive : BOOLEAN, transform : Transforms]

\* the orders in which the elements of a list may be put
orders(items) ==
    {[k \in 1..Len(items) |-> items[pi[k]]] : pi \in Permutations(1..Len(items))}

\* a sort that leaves the groups in the order of the arguments
sortBySizeKeepsOrder(commandGroups) == {commandGroups}

\* commandGroups.sort((a, b) => a.getPath().size() < b.getPath().size()): the
\* groups in ascending path size, those of one size in any order
sortBySize(commandGroups) ==
    {sorted \in orders(commandGroups) :
        \A i, j \in 1..Len(sorted) :
            i < j => size(groupPath(sorted[i])) <= size(groupPath(sorted[j]))}

(***************************************************************************)
(* ServerDispatcher                                                        *)
(***************************************************************************)
Reqs == 1..MaxReqs

Players == {"alice", "bob"}

Texts == {"ping"}

GenericReply == "An error occurred."

\* what executeCommand may reject with: a fault is printable when tostring(err)
\* yields a string, and not when its __tostring raises
Faults == {[msg |-> "attempt to index nil with 'Name'", printable |-> TRUE],
           [msg |-> "table: 0x01", printable |-> FALSE]}

\* the error Luau raises when an error value cannot be made a string
tostringError == [msg |-> "'__tostring' must return a string", printable |-> TRUE]

NoFault == [msg |-> "", printable |-> TRUE]

\* new CommandInteraction(executor, text)
CommandInteraction(executor, text) ==
    [executor |-> executor, text |-> text, replySuccess |-> TRUE, replyText |-> ""]

\* interaction.reply(text) / interaction.error(text)
interactionReply(interaction, text) ==
    [interaction EXCEPT !.replySuccess = TRUE, !.replyText = text]

interactionError(interaction, text) ==
    [interaction EXCEPT !.replySuccess = FALSE, !.replyText = text]

\* interaction.getData()
getData(interaction) == interaction

NoInteraction == CommandInteraction("", "")

\* the interactions executeCommand may resolve with
Resolutions(executor, text) ==
    {interactionReply(CommandInteraction(executor, text), "pong"),
     interactionError(CommandInteraction(executor, text), "Command not found.")}

\* handleError: warn(`${executor.Name} tried to run '${text}' but an error
\* occurred: ${err}`) raises when err cannot be made a string
handleError(log, r, executor, text, err) ==
    [handled |-> log \cup {[req |-> r, executor |-> executor, text |-> text, err |-> err]},
     thrown  |-> ~err.printable]

\* the handler run gives to catch: what run's promise settles to
runCatchEchoesFault(log, r, executor, text, err) ==
    LET h == handleError(log, r, executor, text, err)
    IN  IF h.thrown
        THEN [handled |-> h.handled, kind |-> "rejected", err |-> tostringError,
              interaction |-> NoInteraction]
        ELSE [handled |-> h.handled, kind |-> "resolved", err |-> NoFault,
              interaction |-> interactionError(CommandInteraction(executor, text), err.msg)]

runCatch(log, r, executor, text, err) ==
    LET h == handleError(log, r, executor, text, err)
    IN  IF h.thrown
        THEN [handled |-> h.handled, kind |-> "rejected", err |-> tostringError,
              interaction |-> NoInteraction]
        ELSE [handled |-> h.handled, kind |-> "resolved", err |-> NoFault,
              interaction |-> interactionError(CommandInteraction(executor, text),
                                               GenericReply)]

\* a request handler that awaits run outside any try block
onRequestNoTry(log, r, call) ==
    IF call.run.kind = "resolved"
    THEN [handled |-> log, returned |-> <<getData(call.run.interaction)>>, thrown |-> FALSE]
    ELSE [handled |-> log, returned |-> <<>>, thrown |-> TRUE]

\* the request handler of init, from the await of run on
onRequest(log, r, call) ==
    IF call.run.kind = "resolved"
    THEN [handled |-> log, returned |-> <<getData(call.run.interaction)>>, thrown |-> FALSE]
    ELSE LET h == handleError(log, r, call.executor, call.text, call.run.err)
         IN  IF h.thrown
             THEN [handled |-> h.handled, returned |-> <<>>, thrown |-> TRUE]
             ELSE [handled |-> h.handled, thrown |-> FALSE,
                   returned |-> <<[executor |-> call.executor, text |-> call.text,
                                   replySuccess |-> FALSE, replyText |-> GenericReply]>>]

Pending == [kind |-> "pending", err |-> NoFault, interaction |-> NoInteraction]

Idle ==
    [pc |-> "idle", executor |-> "", text |-> "", fault |-> NoFault, run |-> Pending,
     returned |-> <<>>]

\* a request arrives: the handler calls run, run calls executeCommand
Request(r) ==
    /\ calls[r].pc = "idle"
    /\ \E player \in Players, text \in Texts :
           calls' = [calls EXCEPT ![r] = [Idle EXCEPT !.pc = "executing",
                                                      !.executor = player,
                                                      !.text = text]]
    /\ UNCHANGED <<handled, rvars>>

\* executeCommand's promise resolves, and run's with it
ExecuteResolves(r) ==
    /\ calls[r].pc = "executing"
    /\ \E interaction \in Resolutions(calls[r].executor, calls[r].text) :
           calls' = [calls EXCEPT ![r].pc = "settled",
                                  ![r].run = [kind |-> "resolved", err |-> NoFault,
                                              interaction |-> interaction]]
    /\ UNCHANGED <<handled, rvars>>

\* executeCommand's promise rejects
ExecuteRejects(r) ==
    /\ calls[r].pc = "executing"
    /\ \E err \in Faults : calls' = [calls EXCEPT ![r].pc = "rejected", ![r].fault = err]
    /\ UNCHANGED <<handled, rvars>>

\* run's catch handler runs
RunCatch(r) ==
    /\ calls[r].pc = "rejected"
    /\ LET c == runCatch(handled, r, calls[r].executor, calls[r].text, calls[r].fault)
       IN  /\ calls' = [calls EXCEPT ![r].pc = "settled",
                                     ![r].run = [kind |-> c.kind, err |-> c.err,
                                                 interaction |-> c.interaction]]
           /\ handled' = c.handled
    /\ UNCHANGED rvars

\* the request handler goes on after its await and returns, or raises
Resume(r) ==
    /\ calls[r].pc = "settled"
    /\ LET h == onRequest(handled, r, calls[r])
       IN  /\ calls' = [calls EXCEPT ![r].pc = IF h.thrown THEN "raised" ELSE "returned",
                                     ![r].returned = h.returned]
           /\ handled' = h.handled
    /\ UNCHANGED rvars

(***************************************************************************)
(* Actions: one per public call                                            *)
(***************************************************************************)
Init ==
    /\ commands = EmptyMap
    /\ groups = EmptyMap
    /\ cachedPaths = EmptyMap
    /\ types = EmptyMap
    /\ held = NoneHeld
    /\ fired = <<>>
    /\ logged = {}
    /\ last = [op |-> "none", args |-> <<>>, result |-> "ok", pending |-> <<>>,
               given |-> NoGiven]
    /\ calls = [r \in Reqs |-> Idle]
    /\ handled = {}

RegisterGroup ==
    \E batch \in Batches :
        \E commandGroups \in sortBySize(batch) :
            Commit(registerGroup(Begin, commandGroups), "registerGroup", <<>>)

\* registerCommand(options, callback, group?, guards?) with the name, the
\* aliases and the guards drawn from the given sets
RegisterCommandWith(names, aliasLists, guardLists) ==
    \E name \in names, aliases \in aliasLists,
       group \in SeqsUpTo(Names, MaxDepth - 1), hasGroupArg \in BOOLEAN,
       guards \in guardLists :
        /\ ~hasGroupArg => group = <<>>
        /\ LET st == registerCommand(Begin, name, aliases, group, hasGroupArg, guards)
           IN  CommitGiven(st, "registerCommand",
                           getPaths(createCommand(name, aliases, group, hasGroupArg, guards)),
                           [classGuards |-> <<>>, guards |-> <<guards>>])

AliasLists == SeqsUpTo(Names, MaxAliases)

RegisterCommand == RegisterCommandWith(InputNames, AliasLists, {NoGuards})

RegisterType ==
    \E descriptors \in SeqsUpTo(ArgumentTypes, MaxBatch) :
        /\ types' = registerType(types, descriptors)
        /\ fired' = <<>>
        /\ logged' = {}
        /\ last' = [op |-> "registerType", args |-> descriptors, result |-> "ok",
                    pending |-> <<>>, given |-> NoGiven]
        /\ UNCHANGED <<commands, groups, cachedPaths, held, dvars>>

\* register() on a decorated class
RegisterCommandClass ==
    \E cls \in Classes :
        \E commandGroups \in sortBySize(cls.groups) :
            CommitGiven(registerCommandClass(Begin, cls, commandGroups),
                        "registerCommandClass",
                        [k \in 1..Len(cls.properties) |->
                            append(lowerAll(cls.classGroups) \o
                                       lowerAll(cls.properties[k].group),
                                   lower(cls.properties[k].name))],
                        [classGuards |-> cls.classGuards,
                         guards |-> [k \in 1..Len(cls.properties) |->
                                        cls.properties[k].guards]])

UnregisterCommand ==
    \E path \in InputPaths :
        Commit(unregisterCommand(Begin, path), "unregisterCommand", <<path>>)

UnregisterGroup ==
    \E path \in InputPaths :
        Commit(unregisterGroup(Begin, path), "unregisterGroup", <<path>>)

Next ==
    \/ RegisterGroup
    \/ RegisterCommand
    \/ UnregisterCommand
    \/ UnregisterGroup

Spec == Init /\ [][Next]_vars

\* commands only, under names of every kind
RegisterCommandNamed == RegisterCommandWith(AnyNames, AliasLists, {NoGuards})

NamingNext ==
    \/ RegisterCommandNamed
    \/ UnregisterCommand

NamingSpec == Init /\ [][NamingNext]_vars

\* registration of commands with guards, from both entry points
RegisterCommandGuarded == RegisterCommandWith(Names, {<<>>}, GuardLists)

GuardNext ==
    \/ RegisterCommandGuarded
    \/ RegisterCommandClass

GuardSpec == Init /\ [][GuardNext]_vars

\* groups only; a registerGroup call is recorded with the paths of its groups in
\* the order of the arguments
RegisterGroupBatch ==
    \E batch \in Batches :
        \E commandGroups \in sortBySize(batch) :
            Commit(registerGroup(Begin, commandGroups), "registerGroup",
                   [k \in 1..Len(batch) |-> groupPath(batch[k])])

BatchNext ==
    \/ RegisterGroupBatch
    \/ UnregisterGroup

BatchSpec == Init /\ [][BatchNext]_vars

\* the registry's calls with a subscriber connected; the arguments of a call
\* are not recorded
ObservedRegisterGroup ==
    \E batch \in Batches :
        \E commandGroups \in sortBySize(batch) :
            Observe(registerGroup(Begin, commandGroups), "registerGroup", <<>>)

ObservedRegisterCommand ==
    \E name \in Names, aliases \in AliasLists, group \in SeqsUpTo(Names, MaxDepth - 1),
       hasGroupArg \in BOOLEAN :
        /\ ~hasGroupArg => group = <<>>
        /\ Observe(registerCommand(Begin, name, aliases, group, hasGroupArg, NoGuards),
                   "registerCommand", <<>>)

ObservedUnregisterCommand ==
    \E path \in InputPaths :
        Observe(unregisterCommand(Begin, path), "unregisterCommand", <<>>)

ObservedUnregisterGroup ==
    \E path \in InputPaths :
        Observe(unregisterGroup(Begin, path), "unregisterGroup", <<>>)

SignalNext ==
    \/ ObservedRegisterGroup
    \/ ObservedRegisterCommand
    \/ ObservedUnregisterCommand
    \/ ObservedUnregisterGroup

SignalSpec == Init /\ [][SignalNext]_vars

\* argument types only
TypeSpec == Init /\ [][RegisterType]_vars

DispatchNext ==
    \E r \in Reqs :
        \/ Request(r)
        \/ ExecuteResolves(r)
        \/ ExecuteRejects(r)
        \/ RunCatch(r)
        \/ Resume(r)

\* the scheduler runs every continuation that is ready
DispatchSpec ==
    /\ Init
    /\ [][DispatchNext]_vars
    /\ \A r \in Reqs : WF_vars(RunCatch(r)) /\ WF_vars(Resume(r))

(***************************************************************************)
(* Properties                                                              *)
(***************************************************************************)
\* a path is listed in a cache list
listed(cache, p) == \E k \in 1..Len(cache) : equals(cache[k], p)

\* the cache key of a path's children (the root key for the empty path)
keyOf(p) == IF Len(p) = 0 THEN ROOT_KEY ELSE toString(p)

\* what getChildPaths(p.parent()) returns, getRootPaths() for a single segment
siblings(cp, p) == IF Len(p) = 1 THEN getRootPaths(cp) ELSE getChildPaths(cp, parent(p))

\* the paths under which `commands` and `groups` hold an object
commandPaths == {p \in UNION {Range(getPaths(commands[k])) : k \in DOMAIN commands} :
                    toString(p) \in DOMAIN commands}

groupPaths == {getPath(groups[k]) : k \in DOMAIN groups}

storedPaths == commandPaths \cup groupPaths

used(p) == toString(p) \in DOMAIN commands \cup DOMAIN groups

isProperPrefix(g, p) == Len(g) < Len(p) /\ SubSeq(p, 1, Len(g)) = g

registerOps == {"registerGroup", "registerCommand"}

unregisterOps == {"unregisterGroup", "unregisterCommand"}

\* C1: for every path p stored in `commands` or `groups` and every i with
\* 0 <= i < size(p), the list cached under the key of p's first i segments (the
\* root key when i = 0) contains the path of p's first i+1 segments.
C1_CacheListsEveryPrefix ==
    \A p \in storedPaths :
        \A i \in 0..(size(p) - 1) :
            LET key == keyOf(SubSeq(p, 1, i))
            IN  /\ Has(cachedPaths, key)
                /\ listed(cachedPaths[key], SubSeq(p, 1, i + 1))

\* C2: immediately after registerGroup or registerCommand registers a valid path
\* p that was neither a command nor a group path before the call,
\* getChildPaths(p.parent()) contains p (getRootPaths() for a single segment).
C2_RegisteredPathIsListed ==
    [][last'.op \in registerOps =>
          \A p \in storedPaths' :
              (~used(p) /\ \A k \in 1..Len(p) : matchesPattern(p[k]))
                  => listed(siblings(cachedPaths', p), p)]_vars

\* C2 witness: a registerCommand call has registered a so far unused path below
\* a group (nothing was reported), and the group's child paths list it.
C2_Witness ==
    /\ last.op = "registerCommand"
    /\ last.result = "ok"
    /\ logged = {}
    /\ Len(last.args[1]) = 2
    /\ listed(getChildPaths(cachedPaths, parent(last.args[1])), last.args[1])

\* C3: after unregisterCommand(p) or unregisterGroup(p) on a registered path p,
\* getChildPaths(p.parent()) (getRootPaths() for a single segment) no longer
\* contains p, and if p was the only child listed under its parent key, that key
\* is absent from the cache.
C3_UnregisteredPathIsUnlisted ==
    [][(last'.op \in unregisterOps /\ last'.result = "ok") =>
          LET p   == last'.args[1]
              key == keyOf(parent(p))
          IN  /\ ~listed(siblings(cachedPaths', p), p)
              /\ (Has(cachedPaths, key) /\ cachedPaths[key] = <<p>>)
                     => ~Has(cachedPaths', key)]_vars

\* C4: registering a command at a path that is a registered group path, or a
\* group at a path that is a registered command path, is rejected: the command
\* call leaves `commands`, `groups` and the cache unchanged, and no group is
\* registered at a command's path.
C4_CrossKindDuplicateRejected ==
    [][/\ (/\ last'.op = "registerCommand"
           /\ \E k \in 1..Len(last'.args) : toString(last'.args[k]) \in DOMAIN groups)
              => UNCHANGED <<commands, groups, cachedPaths>>
       /\ last'.op = "registerGroup"
              => \A k \in DOMAIN commands :
                     /\ k \in DOMAIN groups' => k \in DOMAIN groups
                     /\ \A n \in 1..Len(fired') : toString(getPath(fired'[n])) # k]_vars

\* C5: after unregisterGroup(g) on a registered group g, no command and no group
\* below g remains in `commands` or `groups`, and for each of them exactly one
\* unregistered signal was fired, before the groupUnregistered signal of every
\* group that contained it, g included.
C5_UnregisterGroupCascades ==
    [][(last'.op = "unregisterGroup" /\ last'.result = "ok") =>
          LET g       == last'.args[1]
              below   == {p \in storedPaths : isProperPrefix(g, p)}
              firedAt(p) == {n \in 1..Len(fired') :
                                /\ fired'[n].signal \in {"commandUnregistered",
                                                         "groupUnregistered"}
                                /\ p \in Range(fired'[n].paths)}
          IN  /\ \A p \in storedPaths' : ~isProperPrefix(g, p)
              /\ \A p \in below :
                     /\ Cardinality(firedAt(p)) = 1
                     /\ \A n \in firedAt(p) : \A m \in 1..Len(fired') :
                            (/\ fired'[m].signal = "groupUnregistered"
                             /\ isProperPrefix(getPath(fired'[m]), p)) => n < m]_vars

\* C6: in one registerGroup call, a group whose parent is not registered is
\* skipped, and every other group of the batch whose own registration is valid
\* is registered, those sorted after the skipped one included (`last.pending`
\* holds the groups sorted after it).
C6_BatchGoesOnAfterSkip ==
    last.op = "registerGroup" =>
        \A k \in 1..Len(last.pending) :
            LET p == last.pending[k]
            IN  (/\ Len(p) > 1 => Has(groups, toString(parent(p)))
                 /\ ~Has(commands, toString(p)))
                    => Has(groups, toString(p))

\* C7: after registerCommand of a command under a registered group g, the
\* command is in g's child-command list.
C7_CommandLinkedIntoGroup ==
    (/\ last.op = "registerCommand"
     /\ last.result = "ok"
     /\ Len(last.args[1]) > 1
     /\ Has(groups, toString(parent(last.args[1]))))
        => \E n \in 1..Len(groups[toString(parent(last.args[1]))].commands) :
               getPaths(groups[toString(parent(last.args[1]))].commands[n]) = last.args

\* C10: unregisterCommand(p) on a command with several paths removes each of its
\* paths from `commands`, leaves every other command's entry and the `groups`
\* map as they were, leaves the command in no group's child list, and fires
\* commandUnregistered exactly once.
C10_UnregisterCommandRemovesOnlyItsPaths ==
    [][(last'.op = "unregisterCommand" /\ last'.result = "ok") =>
          LET command == commands[toString(last'.args[1])]
          IN  /\ \A n \in 1..Len(getPaths(command)) :
                     ~Has(commands', toString(getPaths(command)[n]))
              /\ \A k \in DOMAIN commands :
                     commands[k] # command =>
                         Has(commands', k) /\ commands'[k] = commands[k]
              /\ DOMAIN groups' = DOMAIN groups
              /\ \A k \in DOMAIN groups :
                     /\ groups'[k].groups = groups[k].groups
                     /\ command \notin Range(groups'[k].commands)
              /\ fired' = <<[signal |-> "commandUnregistered",
                             paths |-> getPaths(command)]>>]_vars

\* C11: unregisterCommand(p) and unregisterGroup(p) on a path that is not
\* registered fail with a not-found error, fire no event and leave `commands`,
\* `groups` and the cache unchanged: a call that fails has changed nothing, and a
\* call that does not fail was made on a registered path.
C11_UnregisterMissingFails ==
    [][/\ last'.op = "unregisterCommand" =>
              IF last'.result = "error"
              THEN /\ "command is not registered" \in logged'
                   /\ fired' = <<>>
                   /\ UNCHANGED <<commands, groups, cachedPaths>>
              ELSE Has(commands, toString(last'.args[1]))
       /\ last'.op = "unregisterGroup" =>
              IF last'.result = "error"
              THEN /\ "group is not registered" \in logged'
                   /\ fired' = <<>>
                   /\ UNCHANGED <<commands, groups, cachedPaths>>
              ELSE Has(groups, toString(last'.args[1]))]_vars

\* C11 witness: an unregister call has failed on a registry that holds a command
\* and a group.
C11_Witness ==
    /\ last.op \in unregisterOps
    /\ last.result = "error"
    /\ fired = <<>>
    /\ DOMAIN commands # {}
    /\ DOMAIN groups # {}

\* C12: a command whose path has a segment that is empty or has a character
\* outside [A-Za-z0-9_] is never inserted: after the registration call the path
\* is in neither `commands`, `groups` nor any cache list, and no registered
\* event is fired for it.
C12_InvalidPathNeverInserted ==
    [][last'.op = "registerCommand" =>
          \A k \in 1..Len(last'.args) :
              LET p == last'.args[k]
              IN  (\E n \in 1..Len(p) : ~matchesPattern(p[n])) =>
                      /\ ~Has(commands', toString(p))
                      /\ ~Has(groups', toString(p))
                      /\ \A key \in DOMAIN cachedPaths' : ~listed(cachedPaths'[key], p)
                      /\ \A n \in 1..Len(fired') : p \notin Range(fired'[n].paths)]_vars

\* C13: for every registered command, whichever entry point created it
\* (registerCommand or the registration of a decorated class), its guard list is
\* the global guards, then the group/class guards, then the command's own
\* guards, in that order.
C13_GuardsGlobalGroupCommand ==
    [][/\ (last'.op = "registerCommand" /\ last'.result = "ok") =>
              commands'[toString(last'.args[1])].guards
                  = globalGuards \o last'.given.classGuards \o last'.given.guards[1]
       /\ (last'.op = "registerCommandClass" /\ last'.result = "ok") =>
              \A k \in 1..Len(last'.args) :
                  (\A n \in (k + 1)..Len(last'.args) : last'.args[n] # last'.args[k]) =>
                      commands'[toString(last'.args[k])].guards
                          = globalGuards \o last'.given.classGuards
                                \o last'.given.guards[k]]_vars

\* C14: in one registerGroup call whose batch holds a group and its descendants
\* in any argument order, the groups are processed in ascending path depth:
\* every parent of the batch is inserted, and its groupRegistered event fired,
\* before any of its children, and the whole chain ends up registered.
C14_ParentsBeforeChildren ==
    [][last'.op = "registerGroup" =>
          /\ \A n, m \in 1..Len(fired') :
                 getPath(fired'[n]) = parent(getPath(fired'[m])) => n < m
          /\ (\A k \in 1..Len(last'.args) :
                  Len(last'.args[k]) > 1 =>
                      \/ parent(last'.args[k]) \in Range(last'.args)
                      \/ Has(groups, toString(parent(last'.args[k]))))
                 => \A k \in 1..Len(last'.args) :
                        Has(groups', toString(last'.args[k]))]_vars

\* C14 witness: a call was given a child before its parent, the parent's event
\* was fired first and both groups are registered.
C14_Witness ==
    /\ last.op = "registerGroup"
    /\ Len(last.args) = 2
    /\ last.args[2] = parent(last.args[1])
    /\ Len(fired) = 2
    /\ getPath(fired[1]) = last.args[2]
    /\ getPath(fired[2]) = last.args[1]
    /\ Has(groups, toString(last.args[1]))
    /\ Has(groups, toString(last.args[2]))

\* every prefix of a stored path
storedPrefixes == UNION {{SubSeq(p, 1, n) : n \in 1..Len(p)} : p \in storedPaths}

\* what an index rebuilt from `commands` and `groups` lists under a key, and
\* its keys
rebuiltList(key) == {q \in storedPrefixes : keyOf(parent(q)) = key}

rebuiltKeys == {keyOf(parent(q)) : q \in storedPrefixes}

\* C15: the child-path cache equals the index rebuilt from scratch from the
\* current contents of `commands` and `groups`: it has no entry for a path that
\* is neither registered nor a prefix of a registered path, and misses none.
C15_CacheEqualsRebuiltIndex ==
    /\ DOMAIN cachedPaths = rebuiltKeys
    /\ \A key \in DOMAIN cachedPaths : Range(cachedPaths[key]) = rebuiltList(key)

\* C16: registerGroup for a path that is already a registered group path, at
\* any depth, single-segment root groups included, is skipped: no group is
\* registered anew at such a path, and the group stored there keeps its child
\* groups and child commands.
C16_DuplicateGroupSkipped ==
    [][last'.op = "registerGroup" =>
          \A k \in DOMAIN groups :
              /\ \A n \in 1..Len(fired') : toString(getPath(fired'[n])) # k
              /\ Has(groups', k)
              /\ Range(groups[k].groups) \subseteq Range(groups'[k].groups)
              /\ Range(groups[k].commands) \subseteq Range(groups'[k].commands)]_vars

\* C17: a registration failure (invalid path characters, duplicate command or
\* group path, missing parent group of a group, unregistered group named by a
\* command) never raises an error out of registerGroup or registerCommand: the
\* call returns normally.
C17_RegistrationNeverRaises ==
    last.op \in registerOps => last.result = "ok"

\* C18: after a registerType call, getType(name) returns the descriptor passed
\* last for that name (by this call, else what it returned before), and
\* registering the same descriptors once more leaves the type map as it is.
C18_TypeLastWriteWins ==
    [][last'.op = "registerType" =>
          /\ \A name \in TypeNames :
                 LET given == {k \in 1..Len(last'.args) : last'.args[k].name = name}
                     final == CHOOSE k \in given : \A j \in given : j <= k
                 IN  getType(types', name)
                         = IF given = {} THEN getType(types, name) ELSE last'.args[final]
          /\ registerType(types', last'.args) = types']_vars

\* C18 witness: one call registered two different descriptors under one name,
\* and getType returns the second.
C18_Witness ==
    /\ last.op = "registerType"
    /\ Len(last.args) = 2
    /\ last.args[1].name = last.args[2].name
    /\ last.args[1] # last.args[2]
    /\ getType(types, last.args[1].name) = last.args[2]

\* C19: no key of the child-path cache maps to an empty list: a key whose list
\* becomes empty on removal is deleted.
C19_NoEmptyCacheList ==
    \A key \in DOMAIN cachedPaths : cachedPaths[key] # <<>>

\* C19 witness: unregisterCommand has removed the only child listed under a
\* group's key, and the key is gone.
C19_Witness ==
    /\ last.op = "unregisterCommand"
    /\ last.result = "ok"
    /\ Len(last.args[1]) = 2
    /\ Has(groups, toString(parent(last.args[1])))
    /\ ~Has(cachedPaths, toString(parent(last.args[1])))

\* C20: every list in the child-path cache holds each child path at most once
\* and is sorted ascending by last segment, also when the same path is cached
\* again (a group and then commands below it, or aliases sharing a prefix).
C20_CacheListsSortedNoDuplicates ==
    \A key \in DOMAIN cachedPaths :
        \A i, j \in 1..Len(cachedPaths[key]) :
            i < j => /\ ~equals(cachedPaths[key][i], cachedPaths[key][j])
                     /\ lessStr(tail(cachedPaths[key][i]), tail(cachedPaths[key][j]))

\* C20 witness: a command and its alias were registered below a group, the
\* alias sorting first; the group's key lists the alias and then the command,
\* and the root list holds the shared prefix once.
C20_Witness ==
    /\ last.op = "registerCommand"
    /\ last.result = "ok"
    /\ Len(last.args) = 2
    /\ Len(last.args[1]) = 2
    /\ Has(groups, toString(parent(last.args[1])))
    /\ lessStr(tail(last.args[2]), tail(last.args[1]))
    /\ getChildPaths(cachedPaths, parent(last.args[1])) = <<last.args[2], last.args[1]>>
    /\ getRootPaths(cachedPaths) = <<parent(last.args[1])>>

\* C21: round trip: from any reachable state, registering a command at a path
\* that is neither a command nor a group path (at root level or under a
\* registered group) and then unregistering it restores `commands`, `groups`
\* and the child-path cache to their values before the registration.
C21_RegisterUnregisterRoundTrip ==
    \A name \in Names, group \in SeqsUpTo(Names, MaxDepth - 1), hasGroupArg \in BOOLEAN :
        LET path == getPath(createCommand(name, <<>>, group, hasGroupArg, NoGuards))
            st1  == registerCommand(Begin, name, <<>>, group, hasGroupArg, NoGuards)
            st2  == unregisterCommand(st1, path)
        IN  (/\ ~hasGroupArg => group = <<>>
             /\ groupResolves(Begin, group, hasGroupArg)
             /\ ~used(path))
                => /\ ~st2.thrown
                   /\ st2.commands = commands
                   /\ st2.groups = groups
                   /\ st2.cachedPaths = cachedPaths

\* C22: between registry calls, the commands for which commandRegistered has
\* fired with no later commandUnregistered are the commands stored in
\* `commands`, and the groups for which groupRegistered has fired with no later
\* groupUnregistered are the groups stored in `groups`.
C22_SubscriberHoldsWhatIsStored ==
    /\ held.commands = {getPaths(commands[k]) : k \in DOMAIN commands}
    /\ held.groups = {getPaths(groups[k]) : k \in DOMAIN groups}

\* C8: when executeCommand fails with a fault during run, the interaction run
\* returns has success = false and the fixed reply "An error occurred.", which
\* is not the fault's text, and what the request returns is that same failure;
\* the fault has been passed to handleError for that request.
C8_FaultYieldsGenericReply ==
    \A r \in Reqs :
        (calls[r].fault \in Faults /\ calls[r].pc \in {"settled", "returned"}) =>
            /\ calls[r].run.kind = "resolved" =>
                   /\ calls[r].run.interaction.replySuccess = FALSE
                   /\ calls[r].run.interaction.replyText = GenericReply
                   /\ calls[r].run.interaction.replyText # calls[r].fault.msg
            /\ \A n \in 1..Len(calls[r].returned) :
                   /\ calls[r].returned[n].replySuccess = FALSE
                   /\ calls[r].returned[n].replyText = GenericReply
            /\ [req |-> r, executor |-> calls[r].executor, text |-> calls[r].text,
                err |-> calls[r].fault] \in handled

\* C8 witness: executeCommand rejected with a printable fault, run resolved to
\* the generic failure and the request returned it.
C8_Witness ==
    \E r \in Reqs :
        /\ calls[r].fault \in Faults
        /\ calls[r].fault.printable
        /\ calls[r].run.kind = "resolved"
        /\ calls[r].pc = "returned"
        /\ calls[r].returned[1].replyText = GenericReply

\* C9: every request whose executeCommand settles returns exactly one
\* interaction-data result, whether executeCommand resolved, rejected, or run's
\* own catch handler failed; the request handler never raises.
C9_RequestReturnsOneResult ==
    /\ [](\A r \in Reqs :
             /\ calls[r].pc # "raised"
             /\ Len(calls[r].returned) = IF calls[r].pc = "returned" THEN 1 ELSE 0)
    /\ \A r \in Reqs :
           (calls[r].pc \in {"settled", "rejected"}) ~> (calls[r].pc = "returned")

\* C9 witness: run's catch handler failed, run rejected, and the request still
\* returned one result.
C9_Witness ==
    \E r \in Reqs :
        /\ calls[r].pc = "returned"
        /\ calls[r].run.kind = "rejected"
        /\ Len(calls[r].returned) = 1

====
